---- MODULE Spec2Model ----
(***************************************************************************)
(* A model of src/M1/azor-chatdog-js/src/llm/llamaClient.ts: the static    *)
(* model cache of LlamaClient (a map from cache key to the promise of a    *)
(* model), the chat session wrapper with its memoized native-session       *)
(* promise and its history array, and the pure helpers                     *)
(* convertToChatHistory, getPromptOptions and countHistoryTokens.          *)
(*                                                                         *)
(* Arrays of messages are objects with an identity: the heap holds their   *)
(* contents, and a wrapper's history field holds the identity of its       *)
(* array, so that two references to one array see each other's pushes.     *)
(*                                                                         *)
(* JavaScript runs one task at a time: an async function runs              *)
(* synchronously up to its first await and every continuation after an     *)
(* await is one atomic step.  Each action below is one such step.          *)
(***************************************************************************)
EXTENDS Integers, Sequences, FiniteSets, TLC

VARIABLES
    modelCache,        \* LlamaClient.modelCache: cache key -> load id, 0 = no entry
    loads,             \* the promises created by the async IIFE of loadModel
    sessions,          \* the LlamaChatSessionWrapper objects, in construction order,
                       \* each with its sendMessage invocations in call order
    heap,              \* the Message[] arrays by identity: the caller's arrays
                       \* first, then the arrays the constructors made
    argHistory,        \* argument of convertToChatHistory / countHistoryTokens
    retItems,          \* result of convertToChatHistory(argHistory)
    retTokens,         \* result of countHistoryTokens(argHistory)
    generationConfig,  \* LlamaClient.generationConfig of the client under test
    retOptions,        \* result of getPromptOptions()
    returned           \* the helpers that have returned

vars == <<modelCache, loads, sessions, heap,
          argHistory, retItems, retTokens, generationConfig, retOptions,
          returned>>

coreVars == <<modelCache, loads, sessions, heap>>
pureVars == <<argHistory, retItems, retTokens, generationConfig, retOptions,
              returned>>

-----------------------------------------------------------------------------
(* Bounds *)

MaxSessions == 2
MaxCalls == 2
MaxMessages == 2
MaxParts == 2

-----------------------------------------------------------------------------
(* Messages *)

Part(t) == [text |-> t]

Message(r, ts) == [role |-> r, parts |-> [i \in 1..Len(ts) |-> Part(ts[i])]]

UserTurn(text) == [role |-> "user", parts |-> <<Part(text)>>]

ModelTurn(responseText) == [role |-> "model", parts |-> <<Part(responseText)>>]

-----------------------------------------------------------------------------
(* Clients: the constructor arguments of LlamaClient objects.  c1 and c2   *)
(* differ in everything but modelPath and gpuLayers; c3 differs from c1 in *)
(* gpuLayers only.  The clients of AllClients beyond these differ from c1  *)
(* in modelPath only (c4), and from c3 in a modelPath that ends like a     *)
(* cache key (c5).                                                         *)

Clients == {"c1", "c2", "c3"}

AllClients == Clients \cup {"c4", "c5"}

ClientConfig ==
    [c \in AllClients |->
        CASE c = "c1" -> [modelName |-> "A", modelPath |-> "m.gguf",
                          gpuLayers |-> 0, contextSize |-> 2048]
          [] c = "c2" -> [modelName |-> "B", modelPath |-> "m.gguf",
                          gpuLayers |-> 0, contextSize |-> 4096]
          [] c = "c3" -> [modelName |-> "A", modelPath |-> "m.gguf",
                          gpuLayers |-> 8, contextSize |-> 2048]
          [] c = "c4" -> [modelName |-> "A", modelPath |-> "n.gguf",
                          gpuLayers |-> 0, contextSize |-> 2048]
          [] c = "c5" -> [modelName |-> "A", modelPath |-> "m.gguf|8",
                          gpuLayers |-> 8, contextSize |-> 2048]]

\* Mutant of CacheKey: the key is the model path
CacheKeyOfPath(c) == ClientConfig[c].modelPath

\* const cacheKey = `${this.modelPath}|${this.gpuLayers}`
CacheKey(c) ==
    ClientConfig[c].modelPath \o "|" \o ToString(ClientConfig[c].gpuLayers)

Keys == {CacheKey(c) : c \in AllClients}

-----------------------------------------------------------------------------
(* Inputs of the operations *)

Texts == {"hi", "yo"}

Responses == {"ok", "no"}

\* The arrays the caller holds when the program starts, by identity: an
\* empty one and a conversation of one turn.
CallerHeap ==
    << <<>>,
       <<Message("user", <<"a">>), Message("model", <<"b", "c">>)>> >>

CallerArrays == 1..Len(CallerHeap)

\* The initialHistory argument: undefined (0) or one of the caller's arrays.
InitialHistoryArgs == {0} \cup CallerArrays

NoError == [kind |-> "none", id |-> 0]

Error(k, i) == [kind |-> k, id |-> i]

-----------------------------------------------------------------------------
(* convertToChatHistory and hydrateNativeHistory *)

\* message.parts.map((part) => part.text)
TextParts(message) == [i \in 1..Len(message.parts) |-> message.parts[i].text]

\* textParts.join("")
RECURSIVE Join(_)
Join(ts) == IF Len(ts) = 0 THEN "" ELSE Head(ts) \o Join(Tail(ts))

\* textParts.join(): the default separator of Array.prototype.join
RECURSIVE JoinComma(_)
JoinComma(ts) ==
    IF Len(ts) = 0 THEN ""
    ELSE IF Len(ts) = 1 THEN Head(ts)
    ELSE Head(ts) \o "," \o JoinComma(Tail(ts))

\* Mutant of ConvertMessage: the user text is joined with the default
\* separator
ConvertMessageJoinComma(message) ==
    IF message.role = "user"
    THEN [type |-> "user", text |-> JoinComma(TextParts(message))]
    ELSE [type |-> "model",
          response |-> IF Len(TextParts(message)) > 0
                       THEN TextParts(message)
                       ELSE <<"">>]

\* Mutant of ConvertMessage: the model response is the joined text
ConvertMessageJoinsResponse(message) ==
    IF message.role = "user"
    THEN [type |-> "user", text |-> Join(TextParts(message))]
    ELSE [type |-> "model", response |-> <<Join(TextParts(message))>>]

\* one iteration of the loop of convertToChatHistory
ConvertMessage(message) ==
    IF message.role = "user"
    THEN [type |-> "user", text |-> Join(TextParts(message))]
    ELSE [type |-> "model",
          response |-> IF Len(TextParts(message)) > 0
                       THEN TextParts(message)
                       ELSE <<"">>]

convertToChatHistory(history) ==
    [i \in 1..Len(history) |-> ConvertMessage(history[i])]

\* The fields of LlamaChatSessionInternal that hydration touches, as the
\* constructor of LlamaChatSession leaves them for a system prompt.  stateRef
\* and lastEvaluation are named by the object they hold.
BuiltNative ==
    [chatHistory |-> <<[type |-> "system", text |-> "sys"]>>,
     stateRef |-> "built", lastEvaluation |-> "built",
     canUseContextWindowForCompletion |-> TRUE]

\* Mutant of hydrateNativeHistory: _chatHistory is replaced by the
\* translated items
hydrateReplacesHistory(session, history) ==
    IF Len(convertToChatHistory(history)) = 0
    THEN session
    ELSE [chatHistory |-> convertToChatHistory(history),
          stateRef |-> "fresh",
          lastEvaluation |-> "undefined",
          canUseContextWindowForCompletion |-> FALSE]

hydrateNativeHistory(session, history) ==
    IF Len(convertToChatHistory(history)) = 0
    THEN session
    ELSE [chatHistory |-> session.chatHistory \o convertToChatHistory(history),
          stateRef |-> "fresh",
          lastEvaluation |-> "undefined",
          canUseContextWindowForCompletion |-> FALSE]

\* the tail of createNativeSession: if (history && history.length > 0) hydrate
HydrateIfHistory(session, history) ==
    IF Len(history) > 0 THEN hydrateNativeHistory(session, history) ELSE session

-----------------------------------------------------------------------------
(* countHistoryTokens *)

\* Mutant of PartTokens: Math.floor
PartTokensFloor(part) == Len(part.text) \div 4

\* Math.ceil(part.text.length / 4)
PartTokens(part) == (Len(part.text) + 3) \div 4

RECURSIVE SumParts(_)
SumParts(parts) ==
    IF Len(parts) = 0 THEN 0 ELSE PartTokens(Head(parts)) + SumParts(Tail(parts))

RECURSIVE countHistoryTokens(_)
countHistoryTokens(history) ==
    IF Len(history) = 0 THEN 0
    ELSE SumParts(Head(history).parts) + countHistoryTokens(Tail(history))

-----------------------------------------------------------------------------
(* getPromptOptions *)

\* A JavaScript value of type number | undefined.  Finite numbers are held
\* in tenths (val = 7 is 0.7).
Undefined == [kind |-> "undefined", val |-> 0]
NaN == [kind |-> "NaN", val |-> 0]
Infinity == [kind |-> "Infinity", val |-> 0]
Finite(tenths) == [kind |-> "finite", val |-> tenths]

\* A JavaScript value of type string | undefined, as its characters.
NoString == [set |-> FALSE, chars |-> <<>>]
String(cs) == [set |-> TRUE, chars |-> cs]

\* Mutant of isFiniteNumber: Number.isFinite is not asked
IsDefinedNumber(value) == value.kind # "undefined"

\* value !== undefined && Number.isFinite(value)
isFiniteNumber(value) == value.kind # "undefined" /\ value.kind = "finite"

\* if (this.generationConfig.responsePrefix): undefined and "" are falsy
Truthy(str) == str.set /\ Len(str.chars) > 0

NumericFields == {"temperature", "topP", "topK", "minP", "maxTokens", "seed"}

\* the keys the seven if-statements of getPromptOptions assign
OptionKeys(config) ==
    {f \in NumericFields : isFiniteNumber(config[f])}
        \cup (IF Truthy(config.responsePrefix) THEN {"responsePrefix"} ELSE {})

\* Object.keys(options).length > 0 ? options : undefined
getPromptOptions(config) ==
    IF OptionKeys(config) # {}
    THEN [tag |-> "object", props |-> [f \in OptionKeys(config) |-> config[f]]]
    ELSE [tag |-> "undefined", props |-> <<>>]

-----------------------------------------------------------------------------
(* The model cache and loadModel *)

\* Mutant of Has: the guard of loadModel never finds the entry
HasNever(cache, key) == FALSE

\* LlamaClient.modelCache.has(cacheKey)
Has(cache, key) == cache[key] # 0

\* the promise of the async IIFE, suspended at "await getLlama()"
NewLoad(key) == [key |-> key, st |-> "getLlama", err |-> NoError]

\* The synchronous part of loadModel: the promises after it ...
LoadModelLoads(cache, ls, key) ==
    IF ~Has(cache, key) THEN Append(ls, NewLoad(key)) ELSE ls

\* ... and the cache after it (modelCache.set(cacheKey, modelPromise))
LoadModelCache(cache, ls, key) ==
    IF ~Has(cache, key) THEN [cache EXCEPT ![key] = Len(ls) + 1] ELSE cache

\* Mutant of Evict: LlamaClient.modelCache.clear()
EvictAll(cache, key) == [k \in DOMAIN cache |-> 0]

\* LlamaClient.modelCache.delete(cacheKey) in the catch block
Evict(cache, key) == [cache EXCEPT ![key] = 0]

InFlight(l) == loads[l].st \in {"getLlama", "loadModel"}

InFlightFor(key) == {l \in 1..Len(loads) : loads[l].key = key /\ InFlight(l)}

\* "await getLlama()" resumes with the runtime: llama.loadModel(...) is
\* called and its promise returned, not awaited
GetLlamaOk(l) ==
    /\ loads[l].st = "getLlama"
    /\ loads' = [loads EXCEPT ![l].st = "loadModel"]
    /\ UNCHANGED <<modelCache, sessions, heap>>

\* Mutant of GetLlamaFail: the catch block deletes the entry and does not
\* rethrow to the promise, which stays pending
GetLlamaFailStaysPending(l) ==
    /\ loads[l].st = "getLlama"
    /\ modelCache' = Evict(modelCache, loads[l].key)
    /\ loads' = [loads EXCEPT ![l].st = "pending"]
    /\ UNCHANGED <<sessions, heap>>

\* "await getLlama()" throws inside the try block: the catch block runs
GetLlamaFail(l) ==
    /\ loads[l].st = "getLlama"
    /\ modelCache' = Evict(modelCache, loads[l].key)
    /\ loads' = [loads EXCEPT ![l].st = "rejected",
                              ![l].err = Error("getLlama", l)]
    /\ UNCHANGED <<sessions, heap>>

\* the promise returned by llama.loadModel fulfils: so does the IIFE's
LoadModelOk(l) ==
    /\ loads[l].st = "loadModel"
    /\ loads' = [loads EXCEPT ![l].st = "resolved"]
    /\ UNCHANGED <<modelCache, sessions, heap>>

\* The promise returned by llama.loadModel rejects.  It was returned from
\* the try block without await, so the async function had already left the
\* try block when it rejects: the catch block does not run.
LoadModelFail(l) ==
    /\ loads[l].st = "loadModel"
    /\ loads' = [loads EXCEPT ![l].st = "rejected",
                              ![l].err = Error("loadModel", l)]
    /\ UNCHANGED <<modelCache, sessions, heap>>

-----------------------------------------------------------------------------
(* createChatSession, the wrapper's constructor and createNativeSession *)

NoNative ==
    [chatHistory |-> <<>>, stateRef |-> "none", lastEvaluation |-> "none",
     canUseContextWindowForCompletion |-> FALSE]

\* Mutant of CopyOf: the constructor copies nothing
CopyOfNothing(hp, initialHistory) == <<>>

\* initialHistory ? [...initialHistory] : [] -- the contents of the new array
CopyOf(hp, initialHistory) ==
    IF initialHistory = 0 THEN <<>> ELSE hp[initialHistory]

\* Mutant of HistoryArray: this.history = initialHistory ?? [], no copy
HistoryArrayOfCaller(hp, initialHistory) ==
    IF initialHistory = 0 THEN Len(hp) + 1 ELSE initialHistory

\* the identity of the array that this.history is assigned: the new one
HistoryArray(hp, initialHistory) == Len(hp) + 1

\* the heap after the constructor made its array
ConstructorHeap(hp, initialHistory) == Append(hp, CopyOf(hp, initialHistory))

\* The wrapper after its constructor ran: history is the identity of a new
\* array holding a copy of initialHistory, hydrateWith is the second copy
\* ([...this.history]) given to createNativeSession, and createNativeSession
\* has run up to "await this.loadModel()".  Beside the fields of the code,
\* initialArg and initialHistory record the argument and what it held,
\* inFlightAtAcquire and startedLoad record what that call of loadModel
\* found and did, requested counts the calls of createNativeSession made for
\* this wrapper, and overlapped tells whether sendMessage was ever called
\* while an earlier call was still in flight.
NewSession(c, initialHistory, cache, ls, hp) ==
    [client |-> c,
     initialArg |-> initialHistory,
     initialHistory |-> IF initialHistory = 0 THEN <<>> ELSE hp[initialHistory],
     history |-> HistoryArray(hp, initialHistory),
     hydrateWith |-> ConstructorHeap(hp, initialHistory)[HistoryArray(hp, initialHistory)],
     mat |-> "awaitModel",
     load |-> LoadModelCache(cache, ls, CacheKey(c))[CacheKey(c)],
     model |-> 0,
     err |-> NoError,
     nativeId |-> 0,
     native |-> NoNative,
     inFlightAtAcquire |->
        {l \in 1..Len(ls) : ls[l].key = CacheKey(c)
                            /\ ls[l].st \in {"getLlama", "loadModel"}},
     startedLoad |-> Len(LoadModelLoads(cache, ls, CacheKey(c))) > Len(ls),
     requested |-> 1,
     overlapped |-> FALSE,
     calls |-> <<>>]

createChatSession(c, initialHistory) ==
    /\ Len(sessions) < MaxSessions
    /\ loads' = LoadModelLoads(modelCache, loads, CacheKey(c))
    /\ modelCache' = LoadModelCache(modelCache, loads, CacheKey(c))
    /\ heap' = ConstructorHeap(heap, initialHistory)
    /\ sessions' = Append(sessions,
                          NewSession(c, initialHistory, modelCache, loads, heap))

\* return this.history -- the array itself, here what it holds
getHistory(s) == heap[sessions[s].history]

\* "await this.loadModel()" resumes with the model: model.createContext
ModelResolved(s) ==
    /\ sessions[s].mat = "awaitModel"
    /\ loads[sessions[s].load].st = "resolved"
    /\ sessions' = [sessions EXCEPT ![s].mat = "awaitContext",
                                    ![s].model = sessions[s].load]
    /\ UNCHANGED <<modelCache, loads, heap>>

\* "await this.loadModel()" throws: createNativeSession's promise rejects
ModelRejected(s) ==
    /\ sessions[s].mat = "awaitModel"
    /\ loads[sessions[s].load].st = "rejected"
    /\ sessions' = [sessions EXCEPT ![s].mat = "failed",
                                    ![s].err = loads[sessions[s].load].err]
    /\ UNCHANGED <<modelCache, loads, heap>>

\* Mutant of NextNativeId: a native session that exists is used again
NativeIdInUse ==
    IF \E s \in 1..Len(sessions) : sessions[s].nativeId # 0
    THEN CHOOSE n \in {sessions[s].nativeId : s \in 1..Len(sessions)} : n # 0
    ELSE Len(sessions)

\* the identity of the object that new LlamaChatSession(...) makes
NextNativeId ==
    Cardinality({s \in 1..Len(sessions) : sessions[s].nativeId # 0}) + 1

\* createContext resolves; getSequence, new LlamaChatSession and the
\* hydration run, and sessionPromise fulfils with the native session
ContextOk(s) ==
    /\ sessions[s].mat = "awaitContext"
    /\ sessions' = [sessions EXCEPT
            ![s].mat = "ready",
            ![s].nativeId = NextNativeId,
            ![s].native = HydrateIfHistory(BuiltNative,
                                           sessions[s].hydrateWith)]
    /\ UNCHANGED <<modelCache, loads, heap>>

\* Mutant of ContextFail: the failure also deletes the cache entry
ContextFailEvicts(s) ==
    /\ sessions[s].mat = "awaitContext"
    /\ sessions' = [sessions EXCEPT ![s].mat = "failed",
                                    ![s].err = Error("createContext", s)]
    /\ modelCache' = Evict(modelCache, CacheKey(sessions[s].client))
    /\ UNCHANGED <<loads, heap>>

\* createContext rejects, or getSequence or the constructor throws
ContextFail(s) ==
    /\ sessions[s].mat = "awaitContext"
    /\ sessions' = [sessions EXCEPT ![s].mat = "failed",
                                    ![s].err = Error("createContext", s)]
    /\ UNCHANGED <<modelCache, loads, heap>>

-----------------------------------------------------------------------------
(* sendMessage *)

Calls(s) == 1..Len(sessions[s].calls)

CallInFlight(s, i) == sessions[s].calls[i].pc \in {"awaitSession", "awaitPrompt"}

RECURSIVE CallCount(_)
CallCount(ss) == IF Len(ss) = 0 THEN 0 ELSE Len(Head(ss).calls) + CallCount(Tail(ss))

\* Mutant of AppendTurn: the model message is pushed before the user message
AppendTurnModelFirst(history, text, responseText) ==
    history \o <<ModelTurn(responseText), UserTurn(text)>>

\* the two pushes of sendMessage
AppendTurn(history, text, responseText) ==
    history \o <<UserTurn(text), ModelTurn(responseText)>>

\* Mutant of sendMessage: the user message is pushed when the call is made
sendMessagePushesUser(s, text) ==
    /\ CallCount(sessions) < MaxCalls
    /\ heap' = [heap EXCEPT ![sessions[s].history] = Append(@, UserTurn(text))]
    /\ sessions' = [sessions EXCEPT
            ![s].calls = Append(@, [text |-> text, pc |-> "awaitSession",
                                    native |-> 0, prompts |-> 0,
                                    result |-> "", err |-> NoError,
                                    atCall |-> getHistory(s),
                                    atEnd |-> <<>>]),
            ![s].overlapped = @ \/ \E i \in Calls(s) : CallInFlight(s, i)]
    /\ UNCHANGED <<modelCache, loads>>

\* sendMessage runs up to "await this.getNativeSession()".  Of a call the
\* model keeps, beside its position, what its caller can observe: the
\* native session its prompt ran on and how often it was prompted, its
\* result or failure, and getHistory() when it was made (atCall) and when
\* it settled (atEnd).
sendMessage(s, text) ==
    /\ CallCount(sessions) < MaxCalls
    /\ sessions' = [sessions EXCEPT
            ![s].calls = Append(@, [text |-> text, pc |-> "awaitSession",
                                    native |-> 0, prompts |-> 0,
                                    result |-> "", err |-> NoError,
                                    atCall |-> getHistory(s),
                                    atEnd |-> <<>>]),
            ![s].overlapped = @ \/ \E i \in Calls(s) : CallInFlight(s, i)]
    /\ UNCHANGED <<modelCache, loads, heap>>

\* Mutant of SessionResolved: the user message is pushed before the prompt
\* is awaited
SessionResolvedPushesUser(s, i) ==
    /\ sessions[s].calls[i].pc = "awaitSession"
    /\ sessions[s].mat = "ready"
    /\ heap' = [heap EXCEPT ![sessions[s].history] =
                    Append(@, UserTurn(sessions[s].calls[i].text))]
    /\ sessions' = [sessions EXCEPT
            ![s].calls[i].pc = "awaitPrompt",
            ![s].calls[i].native = sessions[s].nativeId,
            ![s].calls[i].prompts = @ + 1]
    /\ UNCHANGED <<modelCache, loads>>

\* Mutant of SessionResolved: every call builds a native session of its own
SessionResolvedBuildsNative(s, i) ==
    /\ sessions[s].calls[i].pc = "awaitSession"
    /\ sessions[s].mat = "ready"
    /\ sessions' = [sessions EXCEPT
            ![s].requested = @ + 1,
            ![s].nativeId = @ + MaxSessions,
            ![s].calls[i].pc = "awaitPrompt",
            ![s].calls[i].native = sessions[s].nativeId + MaxSessions,
            ![s].calls[i].prompts = @ + 1]
    /\ UNCHANGED <<modelCache, loads, heap>>

\* the await resumes with the native session: session.prompt(text, options)
SessionResolved(s, i) ==
    /\ sessions[s].calls[i].pc = "awaitSession"
    /\ sessions[s].mat = "ready"
    /\ sessions' = [sessions EXCEPT
            ![s].calls[i].pc = "awaitPrompt",
            ![s].calls[i].native = sessions[s].nativeId,
            ![s].calls[i].prompts = @ + 1]
    /\ UNCHANGED <<modelCache, loads, heap>>

\* Mutant of SessionRejected: sendMessage answers a failed sessionPromise
\* by calling createNativeSession again
SessionRejectedRetries(s, i) ==
    /\ sessions[s].calls[i].pc = "awaitSession"
    /\ sessions[s].mat = "failed"
    /\ loads' = LoadModelLoads(modelCache, loads, CacheKey(sessions[s].client))
    /\ modelCache' = LoadModelCache(modelCache, loads,
                                    CacheKey(sessions[s].client))
    /\ sessions' = [sessions EXCEPT
            ![s].mat = "awaitModel",
            ![s].load = LoadModelCache(modelCache, loads,
                            CacheKey(sessions[s].client))[CacheKey(sessions[s].client)],
            ![s].requested = @ + 1]
    /\ UNCHANGED heap

\* the await throws the failure of sessionPromise: sendMessage rejects
SessionRejected(s, i) ==
    /\ sessions[s].calls[i].pc = "awaitSession"
    /\ sessions[s].mat = "failed"
    /\ sessions' = [sessions EXCEPT
            ![s].calls[i].pc = "failed",
            ![s].calls[i].err = sessions[s].err,
            ![s].calls[i].atEnd = getHistory(s)]
    /\ UNCHANGED <<modelCache, loads, heap>>

\* Mutant of PromptOk: the text pushed is the one of the wrapper's latest
\* call, as if sendMessage kept it in a field of the wrapper
PromptOkOfLatestText(s, i, responseText) ==
    /\ sessions[s].calls[i].pc = "awaitPrompt"
    /\ heap' = [heap EXCEPT ![sessions[s].history] =
                    AppendTurn(@, sessions[s].calls[Len(sessions[s].calls)].text,
                               responseText)]
    /\ sessions' = [sessions EXCEPT
            ![s].calls[i].pc = "ok",
            ![s].calls[i].result = responseText,
            ![s].calls[i].atEnd =
                AppendTurn(getHistory(s),
                           sessions[s].calls[Len(sessions[s].calls)].text,
                           responseText)]
    /\ UNCHANGED <<modelCache, loads>>

\* "await session.prompt" resumes with the response text
PromptOk(s, i, responseText) ==
    /\ sessions[s].calls[i].pc = "awaitPrompt"
    /\ heap' = [heap EXCEPT ![sessions[s].history] =
                    AppendTurn(@, sessions[s].calls[i].text, responseText)]
    /\ sessions' = [sessions EXCEPT
            ![s].calls[i].pc = "ok",
            ![s].calls[i].result = responseText,
            ![s].calls[i].atEnd =
                AppendTurn(getHistory(s), sessions[s].calls[i].text,
                           responseText)]
    /\ UNCHANGED <<modelCache, loads>>

\* "await session.prompt" throws: sendMessage rejects with that failure
PromptFail(s, i) ==
    /\ sessions[s].calls[i].pc = "awaitPrompt"
    /\ sessions' = [sessions EXCEPT
            ![s].calls[i].pc = "failed",
            ![s].calls[i].err = Error("prompt", i),
            ![s].calls[i].atEnd = getHistory(s)]
    /\ UNCHANGED <<modelCache, loads, heap>>

-----------------------------------------------------------------------------
(* The specification of the cache and the sessions *)

PureIdle ==
    /\ argHistory = <<>>
    /\ retItems = <<>>
    /\ retTokens = 0
    /\ generationConfig = [f \in NumericFields \cup {"responsePrefix"} |->
                              IF f = "responsePrefix" THEN NoString ELSE Undefined]
    /\ retOptions = [tag |-> "none", props |-> <<>>]
    /\ returned = {}

CoreIdle ==
    /\ modelCache = [k \in Keys |-> 0]
    /\ loads = <<>>
    /\ sessions = <<>>
    /\ heap = CallerHeap

Init == CoreIdle /\ PureIdle

Sessions == 1..Len(sessions)

\* the caller constructs a wrapper
Create ==
    \E c \in Clients, h \in InitialHistoryArgs :
        createChatSession(c, h) /\ UNCHANGED pureVars

\* the steps of the loads
LoadSteps ==
    \/ \E l \in 1..Len(loads) : GetLlamaOk(l) /\ UNCHANGED pureVars
    \/ \E l \in 1..Len(loads) : GetLlamaFail(l) /\ UNCHANGED pureVars
    \/ \E l \in 1..Len(loads) : LoadModelOk(l) /\ UNCHANGED pureVars
    \/ \E l \in 1..Len(loads) : LoadModelFail(l) /\ UNCHANGED pureVars

\* the steps of createNativeSession
MaterializationSteps ==
    \/ \E s \in Sessions : ModelResolved(s) /\ UNCHANGED pureVars
    \/ \E s \in Sessions : ModelRejected(s) /\ UNCHANGED pureVars
    \/ \E s \in Sessions : ContextOk(s) /\ UNCHANGED pureVars
    \/ \E s \in Sessions : ContextFail(s) /\ UNCHANGED pureVars

\* the caller sends a message, and the steps of sendMessage
CallSteps ==
    \/ \E s \in Sessions, t \in Texts : sendMessage(s, t) /\ UNCHANGED pureVars
    \/ \E s \in Sessions : \E i \in Calls(s) :
            SessionResolved(s, i) /\ UNCHANGED pureVars
    \/ \E s \in Sessions : \E i \in Calls(s) :
            SessionRejected(s, i) /\ UNCHANGED pureVars
    \/ \E s \in Sessions : \E i \in Calls(s) : \E r \in Responses :
            PromptOk(s, i, r) /\ UNCHANGED pureVars
    \/ \E s \in Sessions : \E i \in Calls(s) :
            PromptFail(s, i) /\ UNCHANGED pureVars

Next == Create \/ LoadSteps \/ MaterializationSteps \/ CallSteps

\* Wrappers are constructed and messages sent on them, in any interleaving.
Spec == Init /\ [][Next]_vars

\* Wrappers are constructed and materialize; no message is sent.
AcquireNext == Create \/ LoadSteps \/ MaterializationSteps

SpecAcquire == Init /\ [][AcquireNext]_vars

\* One wrapper, just constructed by createChatSession on an empty cache,
\* and the messages sent on it.
SessionInit ==
    /\ PureIdle
    /\ \E c \in Clients, h \in InitialHistoryArgs :
            /\ loads = LoadModelLoads([k \in Keys |-> 0], <<>>, CacheKey(c))
            /\ modelCache = LoadModelCache([k \in Keys |-> 0], <<>>, CacheKey(c))
            /\ heap = ConstructorHeap(CallerHeap, h)
            /\ sessions = <<NewSession(c, h, [k \in Keys |-> 0], <<>>,
                                       CallerHeap)>>

SessionNext == LoadSteps \/ MaterializationSteps \/ CallSteps

SpecSession == SessionInit /\ [][SessionNext]_vars

\* The caller constructs wrappers from one client and passes as
\* initialHistory one of its own arrays or the array another wrapper's
\* getHistory() returned.
CreateSharing ==
    \E h \in CallerArrays \cup {sessions[a].history : a \in Sessions} :
        createChatSession("c1", h) /\ UNCHANGED pureVars

SharingNext == CreateSharing \/ LoadSteps \/ MaterializationSteps \/ CallSteps

SpecSharing == Init /\ [][SharingNext]_vars

\* The caller constructs wrappers of any client, without a history.
CreateOfAnyClient ==
    \E c \in AllClients : createChatSession(c, 0) /\ UNCHANGED pureVars

FingerprintNext == CreateOfAnyClient \/ LoadSteps \/ MaterializationSteps

SpecFingerprint == Init /\ [][FingerprintNext]_vars

\* Every operation of the runtime that was started completes, and every
\* continuation that can run is run: node's event loop runs each settled
\* promise's reactions.  Nothing obliges the caller to construct a wrapper
\* or to send a message.
RuntimeAnswers ==
    /\ \A l \in 1..MaxSessions :
            /\ WF_vars(l \in 1..Len(loads)
                        /\ (GetLlamaOk(l) \/ GetLlamaFail(l))
                        /\ UNCHANGED pureVars)
            /\ WF_vars(l \in 1..Len(loads)
                        /\ (LoadModelOk(l) \/ LoadModelFail(l))
                        /\ UNCHANGED pureVars)
    /\ \A s \in 1..MaxSessions :
            /\ WF_vars(s \in Sessions
                        /\ (ModelResolved(s) \/ ModelRejected(s))
                        /\ UNCHANGED pureVars)
            /\ WF_vars(s \in Sessions
                        /\ (ContextOk(s) \/ ContextFail(s))
                        /\ UNCHANGED pureVars)
            /\ \A i \in 1..MaxCalls :
                    /\ WF_vars(s \in Sessions /\ i \in Calls(s)
                                /\ (SessionResolved(s, i) \/ SessionRejected(s, i))
                                /\ UNCHANGED pureVars)
                    /\ WF_vars(s \in Sessions /\ i \in Calls(s)
                                /\ ((\E r \in Responses : PromptOk(s, i, r))
                                        \/ PromptFail(s, i))
                                /\ UNCHANGED pureVars)

SpecLive == Init /\ [][SharingNext]_vars /\ RuntimeAnswers

-----------------------------------------------------------------------------
(* The specifications of the pure helpers: Init draws the argument, the    *)
(* action calls the helper.                                                *)

\* the sequences over S of length at most n
SeqsUpTo(S, n) == UNION {[1..m -> S] : m \in 0..n}

Roles == {"user", "model"}

MessagesOver(texts) ==
    {Message(r, ts) : r \in Roles, ts \in SeqsUpTo(texts, MaxParts)}

ConvertTexts == {"a", "b"}

\* One wrapper, just constructed by createChatSession on an empty cache
\* with no history or with any conversation the caller may hold, and its
\* materialization.
HydrateInit ==
    /\ PureIdle
    /\ \E q \in SeqsUpTo(MessagesOver(ConvertTexts), MaxMessages),
          h \in {0, 1} :
            /\ loads = LoadModelLoads([k \in Keys |-> 0], <<>>, CacheKey("c1"))
            /\ modelCache = LoadModelCache([k \in Keys |-> 0], <<>>,
                                           CacheKey("c1"))
            /\ heap = ConstructorHeap(<<q>>, h)
            /\ sessions = <<NewSession("c1", h, [k \in Keys |-> 0], <<>>,
                                       <<q>>)>>

HydrateNext == LoadSteps \/ MaterializationSteps

SpecHydrate == HydrateInit /\ [][HydrateNext]_vars

ConvertInit ==
    /\ CoreIdle
    /\ argHistory \in SeqsUpTo(MessagesOver(ConvertTexts), MaxMessages)
    /\ retItems = <<>>
    /\ retTokens = 0
    /\ generationConfig = [f \in NumericFields \cup {"responsePrefix"} |->
                              IF f = "responsePrefix" THEN NoString ELSE Undefined]
    /\ retOptions = [tag |-> "none", props |-> <<>>]
    /\ returned = {}

ConvertCall ==
    /\ "convertToChatHistory" \notin returned
    /\ retItems' = convertToChatHistory(argHistory)
    /\ returned' = returned \cup {"convertToChatHistory"}
    /\ UNCHANGED <<coreVars, argHistory, retTokens, generationConfig, retOptions>>

ConvertNext == ConvertCall

SpecConvert == ConvertInit /\ [][ConvertNext]_vars

\* a text of n characters
RECURSIVE TextOfLength(_)
TextOfLength(n) == IF n = 0 THEN "" ELSE "x" \o TextOfLength(n - 1)

TokenTexts == {TextOfLength(n) : n \in {1, 39, 40, 41}}

\* countHistoryTokens never reads a role: the histories it is given here
\* are conversations, a user message first and the roles alternating
Conversation(partTexts) ==
    [i \in 1..Len(partTexts) |->
        Message(IF i % 2 = 1 THEN "user" ELSE "model", partTexts[i])]

TokensInit ==
    /\ CoreIdle
    /\ \E q \in SeqsUpTo(SeqsUpTo(TokenTexts, MaxParts), MaxMessages) :
            argHistory = Conversation(q)
    /\ retItems = <<>>
    /\ retTokens = 0
    /\ generationConfig = [f \in NumericFields \cup {"responsePrefix"} |->
                              IF f = "responsePrefix" THEN NoString ELSE Undefined]
    /\ retOptions = [tag |-> "none", props |-> <<>>]
    /\ returned = {}

TokensCall ==
    /\ "countHistoryTokens" \notin returned
    /\ retTokens' = countHistoryTokens(argHistory)
    /\ returned' = returned \cup {"countHistoryTokens"}
    /\ UNCHANGED <<coreVars, argHistory, retItems, generationConfig, retOptions>>

TokensNext == TokensCall

SpecTokens == TokensInit /\ [][TokensNext]_vars

NumberValues == {Undefined, NaN, Infinity, Finite(0), Finite(7)}

PrefixValues ==
    {NoString, String(<<>>), String(<<" ">>), String(<<"x">>),
     String(<<" ", "x">>)}

OptionsInit ==
    /\ CoreIdle
    /\ argHistory = <<>>
    /\ retItems = <<>>
    /\ retTokens = 0
    /\ generationConfig \in
            [temperature : NumberValues, topP : NumberValues,
             topK : NumberValues, minP : NumberValues,
             maxTokens : NumberValues, seed : NumberValues,
             responsePrefix : PrefixValues]
    /\ retOptions = [tag |-> "none", props |-> <<>>]
    /\ returned = {}

OptionsCall ==
    /\ "getPromptOptions" \notin returned
    /\ retOptions' = getPromptOptions(generationConfig)
    /\ returned' = returned \cup {"getPromptOptions"}
    /\ UNCHANGED <<coreVars, argHistory, retItems, retTokens, generationConfig>>

OptionsNext == OptionsCall

SpecOptions == OptionsInit /\ [][OptionsNext]_vars

-----------------------------------------------------------------------------
(* Properties of the cache and the sessions *)

\* What a caller of loadModel observed once its await resumed.
Observed(s) ==
    IF sessions[s].model # 0
    THEN [ok |-> TRUE, model |-> sessions[s].model, err |-> NoError]
    ELSE [ok |-> FALSE, model |-> 0, err |-> sessions[s].err]

\* The outcome of a settled load.
Outcome(l) ==
    IF loads[l].st = "resolved"
    THEN [ok |-> TRUE, model |-> l, err |-> NoError]
    ELSE [ok |-> FALSE, model |-> 0, err |-> loads[l].err]

\* C1: at most one load per fingerprint is in flight; a call of loadModel
\* made while a load for its fingerprint is in flight starts no load and
\* joins that one; every load was started by exactly one call; and every
\* caller of one load observes that load's outcome, so all of them observe
\* the same model or the same failure.
SingleLoadPerFingerprint ==
    /\ \A k \in Keys : Cardinality(InFlightFor(k)) <= 1
    /\ \A s \in Sessions :
            sessions[s].inFlightAtAcquire # {}
                => /\ sessions[s].load \in sessions[s].inFlightAtAcquire
                   /\ ~sessions[s].startedLoad
    /\ \A l \in 1..Len(loads) :
            Cardinality({s \in Sessions : sessions[s].load = l
                                          /\ sessions[s].startedLoad}) = 1
    /\ \A s \in Sessions :
            sessions[s].mat # "awaitModel"
                => /\ ~InFlight(sessions[s].load)
                   /\ Observed(s) = Outcome(sessions[s].load)
    /\ \A s, t \in Sessions :
            (sessions[s].load = sessions[t].load
                /\ sessions[s].mat # "awaitModel" /\ sessions[t].mat # "awaitModel")
                => Observed(s) = Observed(t)

\* Two callers joined one load, the second while it was in flight, and both
\* observed the model of that load.
SingleLoadWitness ==
    \E s, t \in Sessions :
        /\ s # t
        /\ sessions[s].load = sessions[t].load
        /\ sessions[t].inFlightAtAcquire = {sessions[s].load}
        /\ Observed(s).ok /\ Observed(t).ok
        /\ Observed(s).model = sessions[s].load

\* C2 (as claimed): a load that failed, at whichever step, is no longer the
\* cache entry of its fingerprint.
FailedLoadIsEvicted ==
    \A l \in 1..Len(loads) :
        loads[l].st = "rejected" => modelCache[loads[l].key] # l

\* C3: a call that succeeded left getHistory() as the history it found
\* with exactly two messages appended, the user message of its text and then
\* the model message of the text it returned; no element it found was changed.
SendMessageAppendsTurn ==
    \A s \in Sessions : \A i \in Calls(s) :
        sessions[s].calls[i].pc = "ok" =>
            LET c == sessions[s].calls[i]
                n == Len(c.atEnd)
            IN /\ n >= Len(c.atCall) + 2
               /\ SubSeq(c.atEnd, 1, Len(c.atCall)) = c.atCall
               /\ c.atEnd[n - 1] = [role |-> "user", parts |-> <<[text |-> c.text]>>]
               /\ c.atEnd[n] = [role |-> "model", parts |-> <<[text |-> c.result]>>]
               /\ c.result \in Responses
               /\ ~sessions[s].overlapped => n = Len(c.atCall) + 2
               /\ Len(getHistory(s)) >= n
               /\ SubSeq(getHistory(s), 1, n) = c.atEnd

SendMessageAppendsTurnWitness ==
    \E s \in Sessions : \E i \in Calls(s) :
        /\ sessions[s].calls[i].pc = "ok"
        /\ sessions[s].calls[i].text = "hi"
        /\ Len(sessions[s].calls[i].atCall) > 0
        /\ getHistory(s) = sessions[s].calls[i].atEnd

\* C4: a call whose prompt failed ended with the prompt's failure, was
\* prompted once, and left getHistory() as it was when the call was made.
PromptFailureLeavesHistory ==
    \A s \in Sessions : \A i \in Calls(s) :
        LET c == sessions[s].calls[i]
        IN /\ c.prompts <= 1
           /\ (c.pc = "failed" /\ c.prompts = 1) =>
                /\ c.err = [kind |-> "prompt", id |-> i]
                /\ ~sessions[s].overlapped => c.atEnd = c.atCall
                /\ Len(c.atEnd) >= Len(c.atCall)
                /\ SubSeq(c.atEnd, 1, Len(c.atCall)) = c.atCall
                /\ \A j \in Len(c.atCall) + 1 .. Len(c.atEnd) :
                        \E k \in Calls(s) :
                            /\ sessions[s].calls[k].pc = "ok"
                            /\ c.atEnd[j].parts[1].text
                                 \in {sessions[s].calls[k].text,
                                      sessions[s].calls[k].result}

\* A prompt failed, and a later sendMessage on that session succeeded.
PromptFailureWitness ==
    \E s \in Sessions :
        /\ Len(sessions[s].calls) = 2
        /\ ~sessions[s].overlapped
        /\ sessions[s].calls[1].pc = "failed"
        /\ sessions[s].calls[1].err.kind = "prompt"
        /\ sessions[s].calls[2].pc = "ok"
        /\ Len(getHistory(s)) = Len(sessions[s].initialHistory) + 2

\* C5: a wrapper whose materialization failed stays failed with that
\* failure: createNativeSession was called once for it, none of its calls
\* was prompted, every settled call ended with that failure, and its
\* history is the initial history.
MaterializationFailureIsTerminal ==
    \A s \in Sessions :
        sessions[s].err # NoError =>
            /\ sessions[s].mat = "failed"
            /\ sessions[s].err.kind \in {"getLlama", "loadModel", "createContext"}
            /\ sessions[s].requested = 1
            /\ sessions[s].nativeId = 0
            /\ getHistory(s) = sessions[s].initialHistory
            /\ \A i \in Calls(s) :
                    /\ sessions[s].calls[i].prompts = 0
                    /\ sessions[s].calls[i].pc \in {"awaitSession", "failed"}
                    /\ sessions[s].calls[i].pc = "failed"
                            => sessions[s].calls[i].err = sessions[s].err

\* A wrapper failed with a load failure that was evicted, another wrapper
\* of the same fingerprint got the model from a later load, and two calls on
\* the failed wrapper both failed.
MaterializationFailureWitness ==
    \E s, t \in Sessions :
        /\ sessions[s].err.kind = "getLlama"
        /\ CacheKey(sessions[t].client) = CacheKey(sessions[s].client)
        /\ sessions[t].load # sessions[s].load
        /\ sessions[t].mat = "ready"
        /\ modelCache[CacheKey(sessions[s].client)] = sessions[t].load
        /\ Len(sessions[s].calls) = 2
        /\ \A i \in Calls(s) : sessions[s].calls[i].pc = "failed"
        /\ Len(sessions[s].calls[2].atCall) > 0

\* the turns of the calls that succeeded, in the order the calls were made
RECURSIVE CompletedTurns(_)
CompletedTurns(cs) ==
    IF Len(cs) = 0 THEN <<>>
    ELSE (IF Head(cs).pc = "ok"
          THEN <<[role |-> "user", parts |-> <<[text |-> Head(cs).text]>>],
                 [role |-> "model", parts |-> <<[text |-> Head(cs).result]>>]>>
          ELSE <<>>) \o CompletedTurns(Tail(cs))

\* C6: when the calls on a wrapper were made one after the other,
\* getHistory() is the initial history followed by the turns of the calls
\* that succeeded, in call order.
HistoryIsInitialPlusTurns ==
    \A s \in Sessions :
        ~sessions[s].overlapped =>
            getHistory(s) =
                sessions[s].initialHistory \o CompletedTurns(sessions[s].calls)

\* A wrapper with a non-empty initial history completed two different turns.
HistoryIsInitialPlusTurnsWitness ==
    \E s \in Sessions :
        /\ ~sessions[s].overlapped
        /\ Len(sessions[s].initialHistory) = 2
        /\ Len(sessions[s].calls) = 2
        /\ sessions[s].calls[1].pc = "ok" /\ sessions[s].calls[2].pc = "ok"
        /\ sessions[s].calls[1].text # sessions[s].calls[2].text
        /\ Len(getHistory(s)) = 6

\* the loads that completed with a model
ResolvedLoads == {l \in 1..Len(loads) : loads[l].st = "resolved"}

\* C11: a load that completed with a model is the cache entry of its
\* fingerprint and stays it: no step removes or replaces the entry, a call
\* of createChatSession that finds it starts no load and awaits that load,
\* no load for the fingerprint was started after it, and every wrapper that
\* awaited it received its model.
SuccessfulLoadStaysCached ==
    /\ [](\A l \in ResolvedLoads :
            /\ modelCache[loads[l].key] = l
            /\ \A m \in 1..Len(loads) : loads[m].key = loads[l].key => m <= l
            /\ \A s \in Sessions :
                    (sessions[s].load = l /\ sessions[s].mat # "awaitModel")
                        => sessions[s].model = l)
    /\ [][\A l \in ResolvedLoads :
            /\ modelCache'[loads[l].key] = l
            /\ loads'[l] = loads[l]
            /\ Len(sessions') > Len(sessions)
                    /\ CacheKey(sessions'[Len(sessions')].client) = loads[l].key
                => /\ loads' = loads
                   /\ modelCache' = modelCache
                   /\ sessions'[Len(sessions')].load = l
                   /\ ~sessions'[Len(sessions')].startedLoad]_vars

\* A wrapper was constructed after the load of its fingerprint had
\* completed: it started no load and received the model of that load, as
\* did the wrapper that started the load.
SuccessfulLoadWitness ==
    \E s, t \in Sessions :
        /\ s < t
        /\ sessions[s].startedLoad
        /\ sessions[t].load = sessions[s].load
        /\ sessions[t].inFlightAtAcquire = {}
        /\ ~sessions[t].startedLoad
        /\ sessions[s].model = sessions[s].load
        /\ sessions[t].model = sessions[s].load
        /\ modelCache[CacheKey(sessions[t].client)] = sessions[s].load

\* the wrappers whose createNativeSession failed after it had the model
ContextFailed == {s \in Sessions : sessions[s].err.kind = "createContext"}

\* C12: the step in which createNativeSession fails after the model was
\* loaded changes neither the cache nor the loads.  Afterwards the load of
\* the failed wrapper is still the cache entry of its fingerprint, no load
\* for that fingerprint was started after it, and every other wrapper of
\* the fingerprint that awaits that load, constructed before or after the
\* failure, is not failed by it: it holds the same model or will receive
\* it, and its materialization is complete or can still complete.
ContextFailureKeepsModelCached ==
    /\ [](\A s \in ContextFailed :
            /\ sessions[s].model = sessions[s].load
            /\ loads[sessions[s].load].st = "resolved"
            /\ modelCache[CacheKey(sessions[s].client)] = sessions[s].load
            /\ \A m \in 1..Len(loads) :
                    loads[m].key = CacheKey(sessions[s].client)
                        => m <= sessions[s].load
            /\ \A t \in Sessions \ {s} :
                    (CacheKey(sessions[t].client) = CacheKey(sessions[s].client)
                        /\ t > s)
                        => /\ sessions[t].load = sessions[s].load
                           /\ ~sessions[t].startedLoad
            /\ \A t \in Sessions \ {s} :
                    sessions[t].load = sessions[s].load
                        => /\ sessions[t].model \in {0, sessions[s].load}
                           /\ sessions[t].err \in {NoError,
                                                   Error("createContext", t)}
                           /\ sessions[t].mat = "awaitModel" => ENABLED ModelResolved(t)
                           /\ sessions[t].mat = "awaitContext" => ENABLED ContextOk(t))
    /\ [][\A s \in Sessions :
            (sessions[s].mat = "awaitContext" /\ sessions'[s].mat = "failed")
                => /\ modelCache' = modelCache
                   /\ loads' = loads]_vars

\* createNativeSession failed for one wrapper after the model was loaded;
\* a wrapper of the same fingerprint constructed later started no load,
\* received the same model and completed its materialization.
ContextFailureWitness ==
    \E s \in ContextFailed : \E t \in Sessions :
        /\ t > s
        /\ sessions[t].load = sessions[s].load
        /\ sessions[t].inFlightAtAcquire = {}
        /\ ~sessions[t].startedLoad
        /\ sessions[t].model = sessions[s].model
        /\ sessions[t].mat = "ready"
        /\ sessions[t].nativeId # 0

\* the calls of a wrapper that have returned a response
OkCalls(s) == {i \in Calls(s) : sessions[s].calls[i].pc = "ok"}

\* the messages of getHistory() that follow the initial history
Appended(s) ==
    SubSeq(getHistory(s), Len(sessions[s].initialHistory) + 1,
           Len(getHistory(s)))

\* C13: a call in flight has put nothing into getHistory(): the history is
\* the initial history followed by two messages for each call that has
\* returned a response and by nothing else, every message after the initial
\* ones is the user or the model message of such a call, and when the calls
\* are made one after the other the history is exactly what it was when the
\* call in flight was made.  A call that has returned a response has its
\* two messages in the history.
InFlightTurnIsInvisible ==
    \A s \in Sessions :
        /\ Len(getHistory(s)) =
                Len(sessions[s].initialHistory) + 2 * Cardinality(OkCalls(s))
        /\ SubSeq(getHistory(s), 1, Len(sessions[s].initialHistory))
                = sessions[s].initialHistory
        /\ \A j \in 1..Len(Appended(s)) :
                \E i \in OkCalls(s) :
                    Appended(s)[j] \in
                        {[role |-> "user",
                          parts |-> <<[text |-> sessions[s].calls[i].text]>>],
                         [role |-> "model",
                          parts |-> <<[text |-> sessions[s].calls[i].result]>>]}
        /\ \A i \in Calls(s) :
                LET c == sessions[s].calls[i]
                IN /\ (CallInFlight(s, i) /\ ~sessions[s].overlapped)
                        => getHistory(s) = c.atCall
                   /\ CallInFlight(s, i) => c.atEnd = <<>> /\ c.result = ""
                   /\ c.pc = "ok" =>
                        /\ Len(c.atEnd) <= Len(getHistory(s))
                        /\ getHistory(s)[Len(c.atEnd) - 1] =
                                [role |-> "user", parts |-> <<[text |-> c.text]>>]
                        /\ getHistory(s)[Len(c.atEnd)] =
                                [role |-> "model", parts |-> <<[text |-> c.result]>>]

\* After one completed turn a second call waits for its prompt: the history
\* holds the first turn and nothing of the second, whose text is different.
InFlightTurnWitness ==
    \E s \in Sessions :
        /\ Len(sessions[s].calls) = 2
        /\ sessions[s].calls[1].pc = "ok"
        /\ sessions[s].calls[2].pc = "awaitPrompt"
        /\ sessions[s].calls[2].text # sessions[s].calls[1].text
        /\ ~sessions[s].overlapped
        /\ getHistory(s) = sessions[s].calls[2].atCall
        /\ Len(getHistory(s)) = Len(sessions[s].initialHistory) + 2

\* the wrappers of which a call returns a response in the step
Appending(s) ==
    \E i \in Calls(s) :
        sessions[s].calls[i].pc = "awaitPrompt" /\ sessions'[s].calls[i].pc = "ok"

\* C14: the step in which a sendMessage of wrapper s succeeds changes
\* getHistory() of s only: getHistory() of every other wrapper, the array s
\* was given as initialHistory and every array of the caller are what they
\* were, also when the wrappers were given one array or one was given the
\* other's getHistory().  So at every state the caller's arrays hold what
\* they held at the start, and each wrapper's history is what its argument
\* held at construction followed by two messages per successful call of
\* its own.
HistoryIsPrivate ==
    /\ [](/\ \A r \in CallerArrays : heap[r] = CallerHeap[r]
          /\ \A s \in Sessions :
                /\ Len(getHistory(s)) =
                        Len(sessions[s].initialHistory)
                            + 2 * Cardinality(OkCalls(s))
                /\ SubSeq(getHistory(s), 1, Len(sessions[s].initialHistory))
                        = sessions[s].initialHistory)
    /\ [][\A s \in Sessions :
            Appending(s) =>
                /\ \A t \in Sessions \ {s} :
                        heap'[sessions[t].history] = heap[sessions[t].history]
                /\ sessions[s].initialArg # 0 =>
                        heap'[sessions[s].initialArg] = heap[sessions[s].initialArg]
                /\ \A r \in CallerArrays : heap'[r] = heap[r]
                /\ heap'[sessions[s].history] # heap[sessions[s].history]]_vars

\* Wrapper a was given the caller's conversation and completed a turn; then
\* wrapper b was given a.getHistory() and completed a turn of its own:
\* b's history holds six messages, a's still four, the caller's array two.
HistoryIsPrivateWitness ==
    \E a, b \in Sessions :
        /\ a # b
        /\ sessions[a].client = sessions[b].client
        /\ sessions[a].initialArg \in CallerArrays
        /\ Len(heap[sessions[a].initialArg]) = 2
        /\ sessions[b].initialArg = sessions[a].history
        /\ Cardinality(OkCalls(a)) = 1
        /\ Cardinality(OkCalls(b)) = 1
        /\ Len(getHistory(a)) = 4
        /\ Len(getHistory(b)) = 6
        /\ SubSeq(getHistory(b), 1, 4) = getHistory(a)

\* the calls of a wrapper whose prompt was issued
Prompted(s) == {i \in Calls(s) : sessions[s].calls[i].prompts > 0}

\* C15: createNativeSession is called once for a wrapper, in its
\* constructor: from construction on, with or without calls of sendMessage,
\* the wrapper awaits a load of its fingerprint, and its materialization
\* can proceed whenever the runtime answers.  The wrapper has at most one
\* native session, it has one iff the materialization resolved, and every
\* call whose prompt was issued used that native session.
OneMaterializationPerSession ==
    \A s \in Sessions :
        /\ sessions[s].requested = 1
        /\ sessions[s].load \in 1..Len(loads)
        /\ loads[sessions[s].load].key = CacheKey(sessions[s].client)
        /\ (sessions[s].mat = "awaitModel"
                /\ loads[sessions[s].load].st = "resolved")
                => ENABLED ModelResolved(s)
        /\ sessions[s].mat = "awaitContext" => ENABLED ContextOk(s)
        /\ sessions[s].nativeId # 0 <=> sessions[s].mat = "ready"
        /\ \A i \in Calls(s) :
                IF i \in Prompted(s)
                THEN /\ sessions[s].calls[i].native = sessions[s].nativeId
                     /\ sessions[s].nativeId # 0
                ELSE sessions[s].calls[i].native = 0
        /\ \A i, j \in Prompted(s) :
                sessions[s].calls[i].native = sessions[s].calls[j].native

\* Two calls, the second made after the first had returned, were both
\* prompted on the wrapper's one native session.
OneMaterializationWitness ==
    \E s \in Sessions :
        /\ Len(sessions[s].calls) = 2
        /\ sessions[s].calls[1].pc = "ok"
        /\ sessions[s].calls[2].pc = "ok"
        /\ Len(sessions[s].calls[2].atCall) = Len(sessions[s].calls[1].atEnd)
        /\ sessions[s].calls[1].native = sessions[s].nativeId
        /\ sessions[s].calls[2].native = sessions[s].nativeId
        /\ sessions[s].requested = 1

\* C17: no two wrappers have the same native session, and every prompt
\* issued by a call ran on the native session of the call's own wrapper and
\* on no other wrapper's, also when the wrappers have one client, one
\* fingerprint and one model.
NativeSessionIsExclusive ==
    \A s \in Sessions :
        /\ \A t \in Sessions \ {s} :
                sessions[s].nativeId # 0
                    => sessions[s].nativeId # sessions[t].nativeId
        /\ \A i \in Prompted(s) :
                /\ sessions[s].calls[i].native # 0
                /\ sessions[s].calls[i].native = sessions[s].nativeId
                /\ \A t \in Sessions \ {s} :
                        sessions[s].calls[i].native # sessions[t].nativeId

\* Two wrappers of one client hold the same model, and each returned a
\* response from a prompt on its own native session.
NativeSessionWitness ==
    \E s, t \in Sessions :
        /\ s # t
        /\ sessions[s].client = sessions[t].client
        /\ sessions[s].model # 0
        /\ sessions[s].model = sessions[t].model
        /\ \E i \in OkCalls(s) : sessions[s].calls[i].native = sessions[s].nativeId
        /\ \E j \in OkCalls(t) : sessions[t].calls[j].native = sessions[t].nativeId
        /\ sessions[s].nativeId # sessions[t].nativeId

\* two clients have the same model path and the same number of GPU layers
SameFingerprint(c, d) ==
    /\ ClientConfig[c].modelPath = ClientConfig[d].modelPath
    /\ ClientConfig[c].gpuLayers = ClientConfig[d].gpuLayers

\* C18: two clients have the same cache key iff they have the same model
\* path and the same number of GPU layers, whatever their model names and
\* context sizes.  Wrappers of clients that differ in either never await
\* the same load and never hold the same model; wrappers of clients that
\* agree in both await the same load, and hold the same model, unless the
\* load of the earlier wrapper had failed and been evicted before the later
\* wrapper was constructed.
CacheEntryByPathAndLayers ==
    /\ \A c, d \in AllClients : CacheKey(c) = CacheKey(d) <=> SameFingerprint(c, d)
    /\ \A s, t \in Sessions :
            LET c == sessions[s].client
                d == sessions[t].client
            IN IF SameFingerprint(c, d)
               THEN s < t =>
                      \/ /\ sessions[t].load = sessions[s].load
                         /\ ~sessions[t].startedLoad
                         /\ (sessions[s].model # 0 /\ sessions[t].model # 0)
                                => sessions[s].model = sessions[t].model
                      \/ /\ sessions[t].load > sessions[s].load
                         /\ loads[sessions[s].load].err.kind = "getLlama"
                         /\ sessions[s].model = 0
               ELSE /\ sessions[s].load # sessions[t].load
                    /\ loads[sessions[s].load].key # loads[sessions[t].load].key
                    /\ sessions[s].model # 0
                            => sessions[s].model # sessions[t].model
    /\ \A s \in Sessions :
            /\ loads[sessions[s].load].key = CacheKey(sessions[s].client)
            /\ sessions[s].model \in {0, sessions[s].load}

\* Wrappers of two clients that differ in model name and context size
\* only hold one model from one load.
CacheEntryWitness ==
    \E s, t \in Sessions :
        /\ s < t
        /\ ClientConfig[sessions[s].client].modelName
                # ClientConfig[sessions[t].client].modelName
        /\ ClientConfig[sessions[s].client].contextSize
                # ClientConfig[sessions[t].client].contextSize
        /\ SameFingerprint(sessions[s].client, sessions[t].client)
        /\ sessions[s].model # 0
        /\ sessions[s].model = sessions[t].model
        /\ Len(loads) = 1

\* C19: also when calls on one wrapper overlap, the messages after the
\* initial history are complete turns: their number is twice the number of
\* calls that have returned a response, the k-th pair is the user message of
\* the text of one such call followed at once by the model message of the
\* response that same call returned, each such call has exactly one pair,
\* and the pairs are in the order in which the calls returned (the pair of
\* a call ends the history it observed when it returned).
OverlappingCallsKeepTurnsWhole ==
    \A s \in Sessions :
        LET base == Len(sessions[s].initialHistory)
            done == OkCalls(s)
        IN /\ Len(getHistory(s)) = base + 2 * Cardinality(done)
           /\ (Len(getHistory(s)) - base) % 2 = 0
           /\ SubSeq(getHistory(s), 1, base) = sessions[s].initialHistory
           /\ \A k \in 1..Cardinality(done) :
                \E i \in done :
                    /\ Len(sessions[s].calls[i].atEnd) = base + 2 * k
                    /\ getHistory(s)[base + 2 * k - 1] =
                            [role |-> "user",
                             parts |-> <<[text |-> sessions[s].calls[i].text]>>]
                    /\ getHistory(s)[base + 2 * k] =
                            [role |-> "model",
                             parts |-> <<[text |-> sessions[s].calls[i].result]>>]
           /\ \A i, j \in done :
                i # j => Len(sessions[s].calls[i].atEnd)
                            # Len(sessions[s].calls[j].atEnd)
           /\ \A i \in done :
                SubSeq(getHistory(s), 1, Len(sessions[s].calls[i].atEnd))
                    = sessions[s].calls[i].atEnd

\* Two calls with different texts were in flight at once and got different
\* responses, the second returning first: its turn precedes the first's.
OverlappingCallsWitness ==
    \E s \in Sessions :
        /\ sessions[s].overlapped
        /\ Len(sessions[s].calls) = 2
        /\ sessions[s].calls[1].pc = "ok"
        /\ sessions[s].calls[2].pc = "ok"
        /\ sessions[s].calls[1].text # sessions[s].calls[2].text
        /\ sessions[s].calls[1].result # sessions[s].calls[2].result
        /\ sessions[s].calls[1].atCall = sessions[s].calls[2].atCall
        /\ Len(sessions[s].calls[2].atEnd) < Len(sessions[s].calls[1].atEnd)
        /\ Len(getHistory(s)) = Len(sessions[s].initialHistory) + 4

\* the call has returned a response or thrown a failure
Settled(s, i) ==
    /\ s \in Sessions
    /\ i \in Calls(s)
    /\ sessions[s].calls[i].pc \in {"ok", "failed"}

\* C20: if the runtime answers every operation that was started, every
\* call of sendMessage that was made eventually returns a response or
\* throws a failure.
EverySendMessageCompletes ==
    \A s \in 1..MaxSessions : \A i \in 1..MaxCalls :
        (s \in Sessions /\ i \in Calls(s)) ~> Settled(s, i)

\* A wrapper constructed while the load of its fingerprint was in flight
\* awaited that load, the load failed, and a call on that wrapper, made
\* before the load failed, threw the load's failure.
EverySendMessageCompletesWitness ==
    \E t \in Sessions : \E i \in Calls(t) :
        /\ sessions[t].inFlightAtAcquire = {sessions[t].load}
        /\ ~sessions[t].startedLoad
        /\ loads[sessions[t].load].st = "rejected"
        /\ sessions[t].calls[i].pc = "failed"
        /\ sessions[t].calls[i].err = loads[sessions[t].load].err
        /\ sessions[t].calls[i].err.kind \in {"getLlama", "loadModel"}

-----------------------------------------------------------------------------
(* Properties of convertToChatHistory *)

\* the texts of parts 1..n, one after the other with nothing between them
RECURSIVE TextUpTo(_, _)
TextUpTo(parts, n) ==
    IF n = 0 THEN "" ELSE TextUpTo(parts, n - 1) \o parts[n].text

\* C7: the result has one item per message, in order; the item of a user
\* message is a user item whose text is its parts' texts one after the
\* other, the item of any other message is a model item; the empty history
\* gives the empty sequence.
ConvertPreservesOrderAndRoles ==
    "convertToChatHistory" \in returned =>
        /\ Len(retItems) = Len(argHistory)
        /\ \A i \in 1..Len(argHistory) :
                /\ argHistory[i].role = "user" <=> retItems[i].type = "user"
                /\ argHistory[i].role # "user" <=> retItems[i].type = "model"
                /\ argHistory[i].role = "user" =>
                        /\ DOMAIN retItems[i] = {"type", "text"}
                        /\ retItems[i].text =
                                TextUpTo(argHistory[i].parts,
                                         Len(argHistory[i].parts))
        /\ argHistory = <<>> => retItems = <<>>

ConvertWitness ==
    /\ "convertToChatHistory" \in returned
    /\ Len(argHistory) = 2
    /\ argHistory[1] = [role |-> "user", parts |-> <<[text |-> "a"], [text |-> "b"]>>]
    /\ argHistory[2].role = "model"
    /\ retItems[1] = [type |-> "user", text |-> "ab"]
    /\ retItems[2].type = "model"

\* C8 (as claimed): the response of the item of a model message is the
\* sequence of its parts' texts, for any number of parts, zero included.
ModelResponseIsPartTexts ==
    "convertToChatHistory" \in returned =>
        \A i \in 1..Len(argHistory) :
            argHistory[i].role = "model" =>
                /\ Len(retItems[i].response) = Len(argHistory[i].parts)
                /\ \A j \in 1..Len(argHistory[i].parts) :
                        retItems[i].response[j] = argHistory[i].parts[j].text

\* C8 (amended): the response of the item of a model message with at least
\* one part is the sequence of its parts' texts, not concatenated; the
\* response of a model message with no part is the one empty text.
ModelResponseIsPartTextsOrEmptyText ==
    "convertToChatHistory" \in returned =>
        \A i \in 1..Len(argHistory) :
            argHistory[i].role = "model" =>
                IF Len(argHistory[i].parts) > 0
                THEN /\ Len(retItems[i].response) = Len(argHistory[i].parts)
                     /\ \A j \in 1..Len(argHistory[i].parts) :
                            retItems[i].response[j] = argHistory[i].parts[j].text
                ELSE retItems[i].response = <<"">>

ModelResponseWitness ==
    /\ "convertToChatHistory" \in returned
    /\ Len(argHistory) = 2
    /\ argHistory[1] = [role |-> "model", parts |-> <<[text |-> "b"], [text |-> "a"]>>]
    /\ argHistory[2] = [role |-> "model", parts |-> <<>>]
    /\ retItems[1].response = <<"b", "a">>
    /\ retItems[2].response = <<"">>

\* the item a message translates to, by the rules of C7 and C8
ItemOf(message) ==
    IF message.role = "user"
    THEN [type |-> "user",
          text |-> TextUpTo(message.parts, Len(message.parts))]
    ELSE [type |-> "model",
          response |-> IF Len(message.parts) > 0
                       THEN [j \in 1..Len(message.parts) |-> message.parts[j].text]
                       ELSE <<"">>]

\* the native session as the constructor of LlamaChatSession left it
AsConstructed(native) ==
    /\ native.chatHistory = <<[type |-> "system", text |-> "sys"]>>
    /\ native.stateRef = "built"
    /\ native.lastEvaluation = "built"
    /\ native.canUseContextWindowForCompletion = TRUE

\* C16: the native session that createNativeSession returns was hydrated
\* iff the history given to the wrapper holds a message.  If it was, its
\* _chatHistory is the items the constructor had put there, unchanged and
\* in order, followed by one item per message in order, _lastEvaluation is
\* undefined, _chatHistoryStateRef is a new object and
\* _canUseContextWindowForCompletion is false.  If it was not (no history,
\* or an empty one), the native session is as its constructor left it.
HydrationAppendsAndInvalidates ==
    \A s \in Sessions :
        sessions[s].mat = "ready" =>
            LET given == sessions[s].initialHistory
                native == sessions[s].native
            IN IF Len(given) > 0
               THEN /\ Len(native.chatHistory) = 1 + Len(given)
                    /\ native.chatHistory[1] = [type |-> "system", text |-> "sys"]
                    /\ \A i \in 1..Len(given) :
                            native.chatHistory[1 + i] = ItemOf(given[i])
                    /\ native.lastEvaluation = "undefined"
                    /\ native.stateRef = "fresh"
                    /\ native.canUseContextWindowForCompletion = FALSE
               ELSE AsConstructed(native)

\* A wrapper given a user message of two parts and a model message of no
\* part has a native session of three items, the system item first.
HydrationWitness ==
    \E s \in Sessions :
        /\ sessions[s].mat = "ready"
        /\ sessions[s].initialHistory =
                <<[role |-> "user", parts |-> <<[text |-> "a"], [text |-> "b"]>>],
                  [role |-> "model", parts |-> <<>>]>>
        /\ sessions[s].native.chatHistory =
                <<[type |-> "system", text |-> "sys"],
                  [type |-> "user", text |-> "ab"],
                  [type |-> "model", response |-> <<"">>]>>
        /\ ~sessions[s].native.canUseContextWindowForCompletion

-----------------------------------------------------------------------------
(* Properties of getPromptOptions *)

\* a string without its leading and trailing blanks
RECURSIVE TrimStart(_)
TrimStart(cs) ==
    IF Len(cs) > 0 /\ Head(cs) = " " THEN TrimStart(Tail(cs)) ELSE cs

RECURSIVE TrimEnd(_)
TrimEnd(cs) ==
    IF Len(cs) > 0 /\ cs[Len(cs)] = " "
    THEN TrimEnd(SubSeq(cs, 1, Len(cs) - 1)) ELSE cs

Trim(cs) == TrimEnd(TrimStart(cs))

\* the fields of the options record that the claim's rule selects, given
\* which prefixes count
ApplicableFields(config, prefixCounts) ==
    {f \in NumericFields : config[f].kind = "finite"}
        \cup (IF prefixCounts THEN {"responsePrefix"} ELSE {})

ReturnsExactly(fields) ==
    IF fields = {}
    THEN retOptions.tag = "undefined"
    ELSE /\ retOptions.tag = "object"
         /\ DOMAIN retOptions.props = fields
         /\ \A f \in fields : retOptions.props[f] = generationConfig[f]

\* C9 (as claimed): the record holds exactly the numeric fields that are
\* set and finite, and the prefix iff it is a string that is non-empty once
\* trimmed; with no such field the result is undefined.
OptionsHoldTrimmedPrefix ==
    "getPromptOptions" \in returned =>
        ReturnsExactly(
            ApplicableFields(generationConfig,
                generationConfig.responsePrefix.set
                    /\ Trim(generationConfig.responsePrefix.chars) # <<>>))

\* C9 (amended): the record holds exactly the numeric fields that are set
\* and finite, and the prefix iff it is a non-empty string, blanks
\* included; with no such field the result is undefined.
OptionsHoldNonEmptyPrefix ==
    "getPromptOptions" \in returned =>
        ReturnsExactly(
            ApplicableFields(generationConfig,
                generationConfig.responsePrefix.set
                    /\ generationConfig.responsePrefix.chars # <<>>))

\* only temperature = 0.7 is set: the result is exactly {temperature: 0.7}
OptionsWitness ==
    /\ "getPromptOptions" \in returned
    /\ generationConfig.temperature = [kind |-> "finite", val |-> 7]
    /\ \A f \in NumericFields \ {"temperature"} :
            generationConfig[f].kind = "undefined"
    /\ ~generationConfig.responsePrefix.set
    /\ retOptions.tag = "object"
    /\ retOptions.props = [f \in {"temperature"} |-> [kind |-> "finite", val |-> 7]]

-----------------------------------------------------------------------------
(* Properties of countHistoryTokens *)

\* the lengths of all parts of all messages, in order
RECURSIVE PartLengths(_)
PartLengths(history) ==
    IF Len(history) = 0 THEN <<>>
    ELSE [j \in 1..Len(Head(history).parts) |-> Len(Head(history).parts[j].text)]
            \o PartLengths(Tail(history))

RECURSIVE Sum(_, _)
Sum(ns, n) == IF n = 0 THEN 0 ELSE Sum(ns, n - 1) + ns[n]

Ceil4(n) == IF n % 4 = 0 THEN n \div 4 ELSE n \div 4 + 1

TotalLength(history) == Sum(PartLengths(history), Len(PartLengths(history)))

\* C10 (as claimed): the result is the ceiling of a quarter of the total
\* length of the text, however the text is split.
TokensAreCeilingOfTotal ==
    "countHistoryTokens" \in returned =>
        retTokens = Ceil4(TotalLength(argHistory))

\* C10 (amended): the result is the sum over the parts of the ceiling of a
\* quarter of the part's length.  It is at least the ceiling of a quarter
\* of the total length, and equal to it when the text is in one part: one
\* part of 40 characters gives 10 and one part of 41 characters gives 11.
TokensAreSumOfPartCeilings ==
    "countHistoryTokens" \in returned =>
        LET lens == PartLengths(argHistory)
        IN /\ retTokens = Sum([j \in 1..Len(lens) |-> Ceil4(lens[j])], Len(lens))
           /\ retTokens >= Ceil4(TotalLength(argHistory))
           /\ Len(lens) <= 1 => retTokens = Ceil4(TotalLength(argHistory))
           /\ lens = <<40>> => retTokens = 10
           /\ lens = <<41>> => retTokens = 11
           /\ lens = <<1, 39>> => retTokens = 11
           /\ lens = <<1, 1>> => retTokens = 2

TokensWitness ==
    /\ "countHistoryTokens" \in returned
    /\ Len(argHistory) = 1
    /\ Len(argHistory[1].parts) = 1
    /\ Len(argHistory[1].parts[1].text) = 41
    /\ retTokens = 11

====
